---- MODULE Spec2Model ----
(***************************************************************************)
(* Model of flask-app-with-oauth.py: a Flask application with two routes,  *)
(* /callback and /, that keeps an OAuth consent and the exchanged          *)
(* credentials in the per-browser Flask session and uses the credentials   *)
(* to execute one SQL statement per submitted form.                        *)
(*                                                                         *)
(* The Flask session is a signed cookie: the browser sends its copy with   *)
(* every request, the handler works on that copy, and a response whose     *)
(* handler modified the session carries it back in Set-Cookie.  The        *)
(* development server handles requests concurrently, so requests of one    *)
(* browser overlap: a request is a send, a run of the handler, and the     *)
(* arrival of the response, and the handler waits at every call it makes   *)
(* to the provider: other handlers run between the moment the provider     *)
(* acts on a call and the moment its answer is back in the handler.        *)
(*                                                                         *)
(* The OAuth helper (databricks.sdk.oauth) and the provider are the        *)
(* environment of the program.  Their results are inputs of the actions:   *)
(* the outcome of the token endpoint call, of the refresh call and of the  *)
(* statement execution call are chosen nondeterministically.  Random       *)
(* values (consent state, verifier, tokens) are modelled by the index of   *)
(* their generation, so two generated values never collide.                *)
(***************************************************************************)
EXTENDS Integers, FiniteSets, Sequences, TLC

\* ---- bounds of the model ----
NumSessions == 2
MaxConsents == 2
MaxTokens == 2
MaxTime == 2
NumCodes == 1
TokenTTL == 1
NumThreads == 2
MaxRequests == 4

Sessions == 1..NumSessions
ConsentIds == 1..MaxConsents
Codes == 1..NumCodes
\* the threads of the development server (app.run serves requests concurrently)
Threads == 1..NumThreads

\* a dictionary key that is absent is modelled by the value 0 / a zero record
Absent == 0

\* session["consent"] absent
NoConsent == [state |-> Absent, verifier |-> Absent]
\* session["creds"] absent
NoCreds == [access_token |-> Absent, refresh_token |-> Absent, expiry |-> 0]

\* a response without Set-Cookie header: no session is sent to the browser
NoCookie == [consent |-> NoConsent, creds |-> NoCreds]

\* the response of a request that has not happened
NoResp == [status |-> "none", location |-> "none", auth_state |-> Absent,
           flash |-> "none", table |-> FALSE, exc |-> "none",
           used_token |-> Absent, refresh |-> "none",
           refreshed_with |-> Absent, token_calls |-> 0, exec_calls |-> 0,
           set_cookie |-> NoCookie]
NoReq == [sid |-> 0, route |-> "none", method |-> "none", valid |-> FALSE,
          error |-> FALSE, code |-> Absent, state |-> Absent,
          token_ok |-> FALSE, with_refresh |-> FALSE, refresh_ok |-> FALSE,
          exec |-> "none"]

VARIABLES
    session,      \* session[s]: the session cookie browser s holds: consent, creds
    now,          \* the clock the expiry of a token is compared with
    nextConsent,  \* index of the next consent oauth_client.initiate_consent() generates
    nextTok,      \* index of the next token the provider issues
    issued,       \* history: issued[s] = states of the consents index issued in session s
    exchanged,    \* history: the callbacks (session, code, state) that were exchanged
    sent,         \* history: the number of requests the server has received
    inflight      \* inflight[k]: the request thread k is handling

vars == <<session, now, nextConsent, nextTok, issued, exchanged, sent, inflight>>

\* ---- the OAuth helper (databricks.sdk.oauth), as the handlers use it ----

\* what a call returns: either it raises (exc # "none") or it yields creds
\* and tells what became of the refresh exchange: "none" (not attempted),
\* "no_refresh_token" (refused before the call), "failed" or "ok", and how many
\* calls of the provider's token endpoint were made
Raise(e, r, k) == [exc |-> e, creds |-> NoCreds, refresh |-> r, calls |-> k]
Return(c, r, k) == [exc |-> "none", creds |-> c, refresh |-> r, calls |-> k]

\* oauth_client.initiate_consent(): a consent with fresh random state and verifier
initiate_consent(n) == [state |-> n, verifier |-> n]

\* the token the provider's token endpoint issues at time t
retrieve_token(n, with_refresh, t) ==
    [access_token |-> n,
     refresh_token |-> IF with_refresh THEN n ELSE Absent,
     expiry |-> t + TokenTTL]

\* exchange without the comparison of the state
exchange_unchecked(consent, q, n, t) ==
    IF ~q.token_ok THEN Raise("ValueError", "none", 1)
    ELSE Return(retrieve_token(n, q.with_refresh, t), "none", 1)

\* Consent.exchange(code, state): compares the state, then calls the token endpoint
exchange(consent, q, n, t) ==
    IF consent.state # q.state THEN Raise("ValueError", "none", 0)
    ELSE IF ~q.token_ok THEN Raise("ValueError", "none", 1)
    ELSE Return(retrieve_token(n, q.with_refresh, t), "none", 1)

\* exchange_callback_parameters that does not look at the error parameter
exchange_callback_parameters_noerr(consent, q, n, t) ==
    IF q.code = Absent \/ q.state = Absent THEN Raise("ValueError", "none", 0)
    ELSE exchange(consent, q, n, t)

\* Consent.exchange_callback_parameters(request.args)
exchange_callback_parameters(consent, q, n, t) ==
    IF q.error THEN Raise("ValueError", "none", 0)
    ELSE IF q.code = Absent \/ q.state = Absent THEN Raise("ValueError", "none", 0)
    ELSE exchange(consent, q, n, t)

\* Token.expired
expired(creds, t) == creds.expiry <= t

\* SessionCredentials.refresh(): the refresh exchange against the provider
refresh(creds, q, n, t) ==
    IF creds.refresh_token = Absent THEN Raise("ValueError", "no_refresh_token", 0)
    ELSE IF ~q.refresh_ok THEN Raise("ValueError", "failed", 1)
    ELSE Return([access_token |-> n, refresh_token |-> creds.refresh_token,
                 expiry |-> t + TokenTTL], "ok", 1)

\* Refreshable.token(): the token a call is authenticated with, refreshed
\* in the credentials provider object when it is expired
token(creds, q, n, t) ==
    IF expired(creds, t) THEN refresh(creds, q, n, t) ELSE Return(creds, "none", 0)

\* ---- responses ----
redirect(loc, st) == [NoResp EXCEPT !.status = "redirect", !.location = loc,
                                    !.auth_state = st]
\* an exception that leaves the view function: Flask answers 500
server_error(e) == [NoResp EXCEPT !.status = "error", !.exc = e]
\* render_template('index.html', form=form[, table=...]) with the flashed messages
render_template(fl, tab, r) ==
    [NoResp EXCEPT !.status = "page", !.flash = fl, !.table = tab,
                   !.used_token = r.used, !.refresh = r.refresh,
                   !.refreshed_with = r.refreshed_with,
                   !.token_calls = r.token_calls, !.exec_calls = r.exec_calls]

\* a request that makes no statement execution call
NoCall == [exc |-> "none", used |-> Absent, refresh |-> "none",
           refreshed_with |-> Absent, token_calls |-> 0, exec_calls |-> 0]

\* what the execute_statement call did: the exception it ended with, the access
\* token it sent (Absent: no request was sent), the refresh exchange it made
\* with the refresh token of creds, and the number of requests sent
Call(e, creds, tk, k) ==
    [exc |-> e,
     used |-> IF k = 0 THEN Absent ELSE tk.creds.access_token,
     refresh |-> tk.refresh,
     refreshed_with |-> IF tk.calls = 0 THEN Absent ELSE creds.refresh_token,
     token_calls |-> tk.calls,
     exec_calls |-> k]

\* Flask's save_session at the end of a request: a session that was modified
\* is serialised into the signed session cookie of the response
save_session(sess, modified) == IF modified THEN sess ELSE NoCookie

\* a response r with the Set-Cookie header c
with_cookie(r, c) == [r EXCEPT !.set_cookie = c]

\* form.validate_on_submit(): a POST whose form validates
validate_on_submit(q) == q.method = "POST" /\ q.valid

\* ---- the two view functions: session and request in, session and response out ----

\* callback() that falls back to a consent made from the request when the
\* session holds none
callback_view_default(sess, q, n, t) ==
    LET consent == IF sess.consent = NoConsent
                   THEN [state |-> q.state, verifier |-> Absent]
                   ELSE sess.consent
        r == exchange_callback_parameters(consent, q, n, t) IN
    IF r.exc # "none"
    THEN [session |-> sess,
          resp |-> [server_error(r.exc) EXCEPT !.token_calls = r.calls],
          minted |-> FALSE]
    ELSE LET stored == [sess EXCEPT !.creds = r.creds] IN
         [session |-> stored,
          resp |-> [with_cookie(redirect("index", Absent), save_session(stored, TRUE))
                        EXCEPT !.token_calls = r.calls],
          minted |-> TRUE]

\* callback() that exchanges and redirects without keeping the credentials
callback_view_nostore(sess, q, n, t) ==
    IF sess.consent = NoConsent
    THEN [session |-> sess, resp |-> server_error("KeyError"), minted |-> FALSE]
    ELSE LET r == exchange_callback_parameters(sess.consent, q, n, t) IN
         IF r.exc # "none"
         THEN [session |-> sess,
               resp |-> [server_error(r.exc) EXCEPT !.token_calls = r.calls],
               minted |-> FALSE]
         ELSE [session |-> sess,
               resp |-> [redirect("index", Absent) EXCEPT !.token_calls = r.calls],
               minted |-> TRUE]

\* callback(): lines 58-66
callback_view(sess, q, n, t) ==
    IF sess.consent = NoConsent
    THEN [session |-> sess, resp |-> server_error("KeyError"), minted |-> FALSE]
    ELSE LET r == exchange_callback_parameters(sess.consent, q, n, t) IN
         IF r.exc # "none"
         THEN [session |-> sess,
               resp |-> [server_error(r.exc) EXCEPT !.token_calls = r.calls],
               minted |-> FALSE]
         ELSE LET stored == [sess EXCEPT !.creds = r.creds] IN
              [session |-> stored,
               resp |-> [with_cookie(redirect("index", Absent),
                                     save_session(stored, TRUE))
                             EXCEPT !.token_calls = r.calls],
               minted |-> TRUE]

\* the try block without the failure of the DataFrame construction
statement_execution_nobuild(creds, q, n, t) ==
    LET tk == token(creds, q, n, t) IN
    IF tk.exc # "none" THEN Call(tk.exc, creds, tk, 0)
    ELSE IF q.exec = "call_fails" THEN Call("Exception", creds, tk, 1)
    ELSE Call("none", creds, tk, 1)

\* the try block with a second attempt after a failed call
statement_execution_retry(creds, q, n, t) ==
    LET tk == token(creds, q, n, t) IN
    IF tk.exc # "none" THEN Call(tk.exc, creds, tk, 0)
    ELSE IF q.exec = "call_fails" THEN Call("Exception", creds, tk, 2)
    ELSE IF q.exec = "build_fails" THEN Call("Exception", creds, tk, 1)
    ELSE Call("none", creds, tk, 1)

\* the try block of index(): the statement execution call and the DataFrame
statement_execution(creds, q, n, t) ==
    LET tk == token(creds, q, n, t) IN
    IF tk.exc # "none" THEN Call(tk.exc, creds, tk, 0)
    ELSE IF q.exec = "call_fails" THEN Call("Exception", creds, tk, 1)
    ELSE IF q.exec = "build_fails" THEN Call("Exception", creds, tk, 1)
    ELSE Call("none", creds, tk, 1)

\* index() that redirects to the provider without storing the consent
index_view_unstored(sess, q, c, n, t) ==
    IF sess.creds = NoCreds
    THEN LET consent == initiate_consent(c) IN
         [session |-> sess,
          resp |-> with_cookie(redirect("provider", consent.state),
                               save_session(sess, FALSE)),
          minted |-> FALSE, consented |-> TRUE]
    ELSE IF validate_on_submit(q)
         THEN LET r == statement_execution(sess.creds, q, n, t) IN
              [session |-> sess,
               resp |-> IF r.exc # "none"
                        THEN with_cookie(render_template("alert-danger", FALSE, r),
                                         save_session(sess, TRUE))
                        ELSE render_template("none", TRUE, r),
               minted |-> r.refresh = "ok", consented |-> FALSE]
         ELSE [session |-> sess, resp |-> render_template("none", FALSE, NoCall),
               minted |-> FALSE, consented |-> FALSE]

\* index() that handles a submitted form before it looks for the credentials,
\* with the default credentials of the process when the session has none
index_view_default_auth(sess, q, c, n, t) ==
    IF validate_on_submit(q)
    THEN LET creds == IF sess.creds = NoCreds
                      THEN [NoCreds EXCEPT !.expiry = t + TokenTTL]
                      ELSE sess.creds
             r == statement_execution(creds, q, n, t) IN
         [session |-> sess,
          resp |-> IF r.exc # "none"
                   THEN with_cookie(render_template("alert-danger", FALSE, r),
                                    save_session(sess, TRUE))
                   ELSE render_template("none", TRUE, r),
          minted |-> r.refresh = "ok", consented |-> FALSE]
    ELSE IF sess.creds = NoCreds
    THEN LET consent == initiate_consent(c)
             stored == [sess EXCEPT !.consent = consent] IN
         [session |-> stored,
          resp |-> with_cookie(redirect("provider", consent.state),
                               save_session(stored, TRUE)),
          minted |-> FALSE, consented |-> TRUE]
    ELSE [session |-> sess, resp |-> render_template("none", FALSE, NoCall),
          minted |-> FALSE, consented |-> FALSE]

\* index(): lines 68-109
index_view(sess, q, c, n, t) ==
    IF sess.creds = NoCreds
    THEN LET consent == initiate_consent(c)
             stored == [sess EXCEPT !.consent = consent] IN
         [session |-> stored,
          resp |-> with_cookie(redirect("provider", consent.state),
                               save_session(stored, TRUE)),
          minted |-> FALSE, consented |-> TRUE]
    ELSE IF validate_on_submit(q)
         THEN LET r == statement_execution(sess.creds, q, n, t) IN
              [session |-> sess,
               resp |-> IF r.exc # "none"
                        THEN with_cookie(render_template("alert-danger", FALSE, r),
                                         save_session(sess, TRUE))
                        ELSE render_template("none", TRUE, r),
               minted |-> r.refresh = "ok", consented |-> FALSE]
         ELSE [session |-> sess, resp |-> render_template("none", FALSE, NoCall),
               minted |-> FALSE, consented |-> FALSE]

\* a thread that handles no request.  pc is the position of the handler:
\* "loaded" (request taken), "token", "refresh", "execute" (waiting for the
\* answer of the token endpoint call, of the refresh exchange, of the
\* statement execution call), "done" (response on its way); tok is the token
\* the provider issued on the call the handler waits for, at the time the
\* handler read the clock for Token.expired
Idle == [pc |-> "idle", sid |-> 0, q |-> NoReq, sess |-> NoCookie, resp |-> NoResp,
         tok |-> Absent, at |-> 0]

\* ---- requests ----
CallbackRequests ==
    { q \in [sid : {0}, route : {"callback"}, method : {"GET"}, valid : {FALSE},
             error : BOOLEAN, code : {Absent} \cup Codes,
             state : {Absent} \cup ConsentIds,
             token_ok : BOOLEAN, with_refresh : BOOLEAN, refresh_ok : {FALSE},
             exec : {"none"}] :
        q.with_refresh => q.token_ok }

IndexRequests ==
    { q \in [sid : {0}, route : {"index"}, method : {"GET", "POST"}, valid : BOOLEAN,
             error : {FALSE}, code : {Absent}, state : {Absent},
             token_ok : {FALSE}, with_refresh : {FALSE}, refresh_ok : BOOLEAN,
             exec : {"none", "ok", "call_fails", "build_fails"}] :
        /\ (q.method = "GET" => ~q.valid)
        /\ (q.exec # "none" <=> validate_on_submit(q))
        /\ (q.refresh_ok => validate_on_submit(q)) }

\* a request as it is sent: what the provider will answer is not decided yet
Pending(q) == ~q.token_ok /\ ~q.refresh_ok /\ q.exec \in {"none", "ok"}

\* the handler of thread r has returned the response resp
Finish(r, resp) ==
    [r EXCEPT !.pc = "done", !.resp = resp, !.tok = Absent, !.at = 0]

Init ==
    /\ session = [s \in Sessions |-> NoCookie]
    /\ now = 0
    /\ nextConsent = 1
    /\ nextTok = 1
    /\ issued = [s \in Sessions |-> {}]
    /\ exchanged = {}
    /\ sent = 0
    /\ inflight = [k \in Threads |-> Idle]

\* the server gives a request to its first free thread
Free(k) ==
    /\ inflight[k].pc = "idle"
    /\ \A j \in Threads : j < k => inflight[j].pc # "idle"

\* thread k takes request q of browser s with the cookie sess; the model
\* follows the server for MaxRequests requests
Load(k, s, q, sess) ==
    /\ sent < MaxRequests
    /\ sent' = sent + 1
    /\ inflight' = [inflight EXCEPT ![k] =
        [Idle EXCEPT !.pc = "loaded", !.sid = s, !.q = [q EXCEPT !.sid = s],
                     !.sess = sess]]

\* the response of thread k reaches the browser: a Set-Cookie header replaces
\* the session cookie the browser holds
Deliver(k) ==
    LET r == inflight[k] IN
    /\ session' = IF r.resp.set_cookie # NoCookie
                  THEN [session EXCEPT ![r.sid] = r.resp.set_cookie]
                  ELSE session
    /\ inflight' = [inflight EXCEPT ![k] = Idle]

\* a /callback that finds the consent in a store shared by all sessions: the
\* stored consent whose state the request carries, whatever session holds it
callback_begin_shared(k, s) ==
    /\ Free(k)
    /\ \E q \in CallbackRequests :
          LET holders == {s2 \in Sessions : /\ session[s2].consent # NoConsent
                                            /\ session[s2].consent.state = q.state}
              found == IF holders = {} THEN session[s].consent
                       ELSE session[CHOOSE s2 \in holders : TRUE].consent IN
          /\ Pending(q)
          /\ Load(k, s, q, [session[s] EXCEPT !.consent = found])
    /\ UNCHANGED <<session, now, nextConsent, nextTok, issued, exchanged>>

\* GET /callback of browser s arrives with the browser's session cookie
callback_begin(k, s) ==
    /\ Free(k)
    /\ \E q \in CallbackRequests : Pending(q) /\ Load(k, s, q, session[s])
    /\ UNCHANGED <<session, now, nextConsent, nextTok, issued, exchanged>>

\* lines 64-65 up to the call of the token endpoint: the consent is read from
\* the session of the request and the callback parameters are checked; either
\* this raises, or the token request is sent and the provider acts on it: it
\* issues a token or refuses
callback_exchange(k) ==
    LET r == inflight[k]
        out == callback_view(r.sess, r.q, nextTok, now) IN
    /\ r.pc = "loaded" /\ r.q.route = "callback"
    /\ IF out.resp.token_calls = 0
       THEN /\ inflight' = [inflight EXCEPT ![k] = Finish(r, out.resp)]
            /\ UNCHANGED nextTok
       ELSE \E ok \in BOOLEAN, wr \in BOOLEAN :
               /\ wr => ok
               /\ ok => nextTok <= MaxTokens
               /\ nextTok' = IF ok THEN nextTok + 1 ELSE nextTok
               /\ inflight' = [inflight EXCEPT ![k] =
                      [r EXCEPT !.pc = "token",
                                !.q = [r.q EXCEPT !.token_ok = ok,
                                                  !.with_refresh = wr],
                                !.tok = IF ok THEN nextTok ELSE Absent]]
    /\ UNCHANGED <<session, now, nextConsent, issued, exchanged, sent>>

\* line 65, the answer of the token endpoint is back in the handler: the
\* credentials are put into the session of the request, or the exchange raises
callback_store(k) ==
    LET r == inflight[k]
        out == callback_view(r.sess, r.q, r.tok, now) IN
    /\ r.pc = "token" /\ r.q.route = "callback"
    /\ exchanged' = IF out.minted
                    THEN exchanged \cup {<<r.sid, r.q.code, r.q.state>>}
                    ELSE exchanged
    /\ inflight' = [inflight EXCEPT ![k] = Finish(r, out.resp)]
    /\ UNCHANGED <<session, now, nextConsent, nextTok, issued, sent>>

\* line 66 and the end of the request: the redirect, or the error page, and
\* the session cookie reach the browser
callback_end(k) ==
    /\ inflight[k].pc = "done" /\ inflight[k].q.route = "callback"
    /\ Deliver(k)
    /\ UNCHANGED <<now, nextConsent, nextTok, issued, exchanged, sent>>

\* GET or POST / of browser s arrives with the browser's session cookie
index_begin(k, s) ==
    /\ Free(k)
    /\ \E q \in IndexRequests : Pending(q) /\ Load(k, s, q, session[s])
    /\ UNCHANGED <<session, now, nextConsent, nextTok, issued, exchanged>>

\* the statement execution call of thread r is sent and the provider acts on
\* it: the statement runs or fails, and its result can be built or not
Execute(k, r) ==
    \E e \in {"ok", "call_fails", "build_fails"} :
        inflight' = [inflight EXCEPT ![k] =
            [r EXCEPT !.pc = "execute", !.q = [r.q EXCEPT !.exec = e]]]

\* lines 72-91 up to the first call of the provider: without credentials the
\* consent is initiated and the redirect returned; without a submitted form
\* the page is returned; with one, execute_statement asks the credentials for
\* the token, and either the refresh exchange is sent (token expired) and the
\* provider acts on it, or the statement execution call is sent
index_run(k) ==
    LET r == inflight[k]
        out == index_view(r.sess, r.q, nextConsent, nextTok, now) IN
    /\ r.pc = "loaded" /\ r.q.route = "index"
    /\ IF out.resp.token_calls > 0
       THEN /\ \E ok \in BOOLEAN :
                  /\ ok => nextTok <= MaxTokens
                  /\ nextTok' = IF ok THEN nextTok + 1 ELSE nextTok
                  /\ inflight' = [inflight EXCEPT ![k] =
                         [r EXCEPT !.pc = "refresh",
                                   !.q = [r.q EXCEPT !.refresh_ok = ok],
                                   !.tok = IF ok THEN nextTok ELSE Absent,
                                   !.at = now]]
            /\ UNCHANGED <<nextConsent, issued>>
       ELSE IF out.resp.exec_calls > 0
       THEN /\ Execute(k, [r EXCEPT !.at = now])
            /\ UNCHANGED <<nextTok, nextConsent, issued>>
       ELSE /\ out.consented => nextConsent <= MaxConsents
            /\ nextConsent' = IF out.consented THEN nextConsent + 1
                              ELSE nextConsent
            /\ issued' = IF out.consented
                         THEN [issued EXCEPT ![r.sid] = @ \cup {out.resp.auth_state}]
                         ELSE issued
            /\ inflight' = [inflight EXCEPT ![k] = Finish(r, out.resp)]
            /\ UNCHANGED nextTok
    /\ UNCHANGED <<session, now, exchanged, sent>>

\* lines 91-94, the answer of the refresh exchange is back in the handler:
\* either the call raises and the exception is flashed (lines 99-100, 109), or
\* the statement execution call is sent with the refreshed token
index_refreshed(k) ==
    LET r == inflight[k]
        out == index_view(r.sess, r.q, nextConsent, r.tok, r.at) IN
    /\ r.pc = "refresh" /\ r.q.route = "index"
    /\ IF out.resp.exec_calls > 0
       THEN Execute(k, r)
       ELSE inflight' = [inflight EXCEPT ![k] = Finish(r, out.resp)]
    /\ UNCHANGED <<session, now, nextConsent, nextTok, issued, exchanged, sent>>

\* lines 91-109, the answer of the statement execution call is back in the
\* handler: the result is built and rendered, or the exception is flashed
index_executed(k) ==
    LET r == inflight[k]
        out == index_view(r.sess, r.q, nextConsent, r.tok, r.at) IN
    /\ r.pc = "execute" /\ r.q.route = "index"
    /\ inflight' = [inflight EXCEPT ![k] = Finish(r, out.resp)]
    /\ UNCHANGED <<session, now, nextConsent, nextTok, issued, exchanged, sent>>

\* lines 75, 102-109 and the end of the request: the redirect or the page, and
\* the session cookie if the handler modified the session, reach the browser
index_end(k) ==
    /\ inflight[k].pc = "done" /\ inflight[k].q.route = "index"
    /\ Deliver(k)
    /\ UNCHANGED <<now, nextConsent, nextTok, issued, exchanged, sent>>

\* time passes
Tick ==
    /\ now < MaxTime
    /\ now' = now + 1
    /\ UNCHANGED <<session, nextConsent, nextTok, issued, exchanged, sent, inflight>>

Next ==
    \/ \E k \in Threads, s \in Sessions : callback_begin(k, s)
    \/ \E k \in Threads : callback_exchange(k)
    \/ \E k \in Threads : callback_store(k)
    \/ \E k \in Threads : callback_end(k)
    \/ \E k \in Threads, s \in Sessions : index_begin(k, s)
    \/ \E k \in Threads : index_run(k)
    \/ \E k \in Threads : index_refreshed(k)
    \/ \E k \in Threads : index_executed(k)
    \/ \E k \in Threads : index_end(k)
    \/ Tick

Spec == Init /\ [][Next]_vars

TypeOK ==
    /\ now \in 0..MaxTime
    /\ nextConsent \in 1..(MaxConsents + 1)
    /\ nextTok \in 1..(MaxTokens + 1)
    /\ \A s \in Sessions :
          /\ session[s].consent.state \in {Absent} \cup ConsentIds
          /\ session[s].creds.access_token \in 0..MaxTokens
          /\ issued[s] \subseteq ConsentIds
    /\ \A k \in Threads :
          /\ inflight[k].pc \in {"idle", "loaded", "token", "refresh", "execute",
                                 "done"}
          /\ inflight[k].tok \in 0..MaxTokens
          /\ inflight[k].at \in 0..MaxTime
          /\ inflight[k].sid \in {0} \cup Sessions

\* ---- the claims ----

\* thread k has run the handler of its request; the response is on its way
Done(k) == inflight[k].pc = "done"

\* the step in which the handler of thread k returns its response
Runs(k) == inflight[k].pc \notin {"idle", "done"} /\ inflight'[k].pc = "done"

\* the step in which the response of thread k reaches the browser
Delivered(k) == inflight[k].pc = "done" /\ inflight'[k].pc = "idle"

\* the response r rejects its request: an error, not a redirect or a page,
\* and no session cookie
Rejected(r) == r.resp.status = "error" /\ r.resp.set_cookie = NoCookie

\* C1: a /callback whose state parameter differs from the state of the consent
\* stored in the session of the request is rejected and creates no
\* credentials: its response leaves the session the browser holds as it is, so
\* a session without credentials before it is without credentials after it.
C1_StateMismatchRejected ==
    [][\A k \in Threads :
          LET r == inflight[k] IN
          (/\ Delivered(k) /\ r.q.route = "callback"
           /\ r.q.state # r.sess.consent.state)
              => /\ Rejected(r)
                 /\ session' = session
                 /\ (session[r.sid].creds = NoCreds
                        => session'[r.sid].creds = NoCreds)]_vars

\* a callback that would be exchanged but for its state: consent stored, no
\* credentials, code present, no error parameter, state of another consent;
\* it was rejected before the token endpoint was called
C1_Witness ==
    \E k \in Threads :
        LET r == inflight[k] IN
        /\ Done(k) /\ r.q.route = "callback"
        /\ r.sess.consent # NoConsent
        /\ r.sess.creds = NoCreds
        /\ session[r.sid].creds = NoCreds
        /\ r.q.state \notin {Absent, r.sess.consent.state}
        /\ r.q.code # Absent /\ ~r.q.error
        /\ r.resp.token_calls = 0
        /\ Rejected(r)

\* C2: a session comes to hold credentials only through the login cycle: a
\* callback is exchanged only in a session whose cookie holds a consent that
\* the index route issued in that session before, with the state of that
\* consent and a successful token exchange, and a session that holds
\* credentials has had such an exchange.
C2_LoginCycleInOrder ==
    [][/\ \A k \in Threads :
             LET r == inflight[k]
                 r1 == inflight'[k] IN
             (/\ Runs(k) /\ r.q.route = "callback"
              /\ r1.resp.status = "redirect")
                 => /\ r.sess.consent # NoConsent
                    /\ r.sess.consent.state \in issued[r.sid]
                    /\ r1.q.state = r.sess.consent.state
                    /\ r1.q.token_ok /\ ~r1.q.error
                    /\ <<r.sid, r1.q.code, r1.q.state>> \in exchanged'
       /\ \A s \in Sessions :
             session'[s].creds # NoCreds
                 => \E e \in exchanged' : e[1] = s /\ e[3] \in issued'[s]
       /\ \A s \in Sessions :
             (session[s].creds = NoCreds /\ session'[s].creds # NoCreds)
                 => \E k \in Threads :
                       /\ Delivered(k) /\ inflight[k].sid = s
                       /\ inflight[k].resp.set_cookie = session'[s]]_vars

\* a session that was authenticated by a callback: it holds credentials and
\* the consent whose state was exchanged
C2_Witness ==
    \E s \in Sessions :
        /\ session[s].creds # NoCreds
        /\ session[s].consent # NoConsent
        /\ \E e \in exchanged : e[1] = s /\ e[3] = session[s].consent.state

\* C3: / in a session without credentials answers with a redirect to the
\* authorization URL of a newly initiated consent, which is the consent the
\* session then holds; / in a session with credentials answers with the form
\* page, never with a redirect.
C3_IndexRedirectsOrShowsForm ==
    [][\A k \in Threads :
          LET r == inflight[k] IN
          (Delivered(k) /\ r.q.route = "index")
              => IF r.sess.creds = NoCreds
                 THEN /\ r.resp.status = "redirect"
                      /\ r.resp.location = "provider"
                      /\ session'[r.sid].consent # NoConsent
                      /\ session'[r.sid].consent.state = r.resp.auth_state
                      /\ session'[r.sid].consent # r.sess.consent
                      /\ \A s \in Sessions \ {r.sid} :
                             session'[s].consent.state # r.resp.auth_state
                 ELSE /\ r.resp.status = "page"
                      /\ r.resp.location # "provider"]_vars

\* a second unauthenticated request to /: a new consent is on its way to
\* replace the stored one
C3_Witness ==
    \E k \in Threads :
        LET r == inflight[k] IN
        /\ Done(k) /\ r.q.route = "index"
        /\ r.sess.creds = NoCreds
        /\ r.sess.consent # NoConsent
        /\ r.resp.status = "redirect" /\ r.resp.location = "provider"
        /\ r.resp.set_cookie.consent.state = r.resp.auth_state
        /\ r.resp.auth_state # r.sess.consent.state

\* C4: after a callback has exchanged the stored consent successfully, the
\* session no longer holds a consent.
C4_ConsentDiscarded ==
    [][\A k \in Threads :
          LET r == inflight[k] IN
          (/\ Delivered(k) /\ r.q.route = "callback"
           /\ r.resp.status = "redirect")
              => session'[r.sid].consent = NoConsent]_vars

\* C5: within one session a callback that arrives before any consent was
\* issued, and a callback that repeats the parameters of a callback that was
\* exchanged, are rejected and store nothing in the session.
C5_OutOfOrderAndDuplicateRejected ==
    [][\A k \in Threads :
          LET r == inflight[k] IN
          (/\ Runs(k) /\ r.q.route = "callback"
           /\ \/ issued[r.sid] = {}
              \/ <<r.sid, r.q.code, r.q.state>> \in exchanged)
              => /\ inflight'[k].resp.status = "error"
                 /\ inflight'[k].resp.set_cookie = NoCookie]_vars

\* C6: when the refresh exchange for expired credentials fails, the session's
\* credentials are cleared.
C6_FailedRefreshClearsCreds ==
    [][\A k \in Threads :
          LET r == inflight[k] IN
          (/\ Delivered(k) /\ r.q.route = "index"
           /\ r.resp.refresh = "failed")
              => session'[r.sid].creds = NoCreds]_vars

\* C7: when the refresh exchange for expired credentials succeeds, the session
\* holds the refreshed credentials, with a later expiry than the expired ones.
C7_RefreshedCredsStored ==
    [][\A k \in Threads :
          LET r == inflight[k] IN
          (/\ Delivered(k) /\ r.q.route = "index"
           /\ r.resp.refresh = "ok")
              => /\ session'[r.sid].creds.access_token = r.resp.used_token
                 /\ session'[r.sid].creds.expiry > r.sess.creds.expiry]_vars

\* C8: no request ends with an exception leaving the handler.
C8_NoExceptionPropagates ==
    \A k \in Threads : Done(k) => inflight[k].resp.status # "error"

\* the statement execution of the request r raised: the refresh inside the
\* call, the call itself, or the construction of the result
ExecutionFailed(r) ==
    /\ r.q.route = "index"
    /\ r.sess.creds # NoCreds
    /\ validate_on_submit(r.q)
    /\ \/ r.q.exec \in {"call_fails", "build_fails"}
       \/ r.resp.refresh \in {"failed", "no_refresh_token"}

\* C9: when the statement execution of a submitted query fails, the response is
\* the form page with the error flashed and without a result table, and the
\* session's consent and credentials after the response are the ones the
\* request came with.
C9_FailedQueryFlashesNoTable ==
    [][\A k \in Threads :
          LET r == inflight[k] IN
          (Delivered(k) /\ ExecutionFailed(r))
              => /\ r.resp.status = "page"
                 /\ r.resp.flash = "alert-danger"
                 /\ ~r.resp.table
                 /\ session'[r.sid] = r.sess]_vars

\* a query whose call succeeded with a valid token and whose result could not
\* be built
C9_Witness ==
    \E k \in Threads :
        LET r == inflight[k] IN
        /\ Done(k) /\ ExecutionFailed(r)
        /\ r.q.exec = "build_fails"
        /\ r.resp.used_token # Absent
        /\ r.resp.exec_calls = 1
        /\ r.resp.flash = "alert-danger"
        /\ ~r.resp.table
        /\ r.resp.set_cookie = r.sess

\* C10: a callback whose state matches the stored consent and whose exchange
\* fails, by an error parameter or by the token endpoint, is rejected and
\* stores nothing: its response leaves the session's credentials as they are.
C10_FailedExchangeStoresNothing ==
    [][\A k \in Threads :
          LET r == inflight[k] IN
          (/\ Delivered(k) /\ r.q.route = "callback"
           /\ r.sess.consent # NoConsent
           /\ r.q.state = r.sess.consent.state
           /\ (r.q.error \/ ~r.q.token_ok))
              => /\ Rejected(r)
                 /\ session'[r.sid].creds = session[r.sid].creds]_vars

\* an authenticated session receives a callback with the right state, a code
\* and an error parameter
C10_Witness ==
    \E k \in Threads :
        LET r == inflight[k] IN
        /\ Done(k) /\ r.q.route = "callback"
        /\ r.sess.consent # NoConsent
        /\ r.q.state = r.sess.consent.state
        /\ r.q.error /\ r.q.code # Absent
        /\ r.sess.creds # NoCreds
        /\ session[r.sid].creds = r.sess.creds
        /\ Rejected(r)

\* C11: a callback that fails authentication, by a state that differs from the
\* stored consent's or by an error parameter of the provider, is answered with
\* a redirect that restarts the login.
C11_AuthFailureRedirectsToLogin ==
    \A k \in Threads :
        LET r == inflight[k] IN
        (/\ Done(k) /\ r.q.route = "callback"
         /\ r.sess.consent # NoConsent
         /\ (r.q.state # r.sess.consent.state \/ r.q.error))
            => /\ r.resp.status = "redirect"
               /\ r.resp.exc = "none"

\* C12: a request reads the session of its own browser only and its response
\* changes the session of its own browser only, and a callback that carries
\* the state issued to the consent of another session, and not to this one,
\* is rejected and stores nothing.
C12_SessionsIsolated ==
    [][/\ \A k \in Threads :
             (inflight[k].pc = "idle" /\ inflight'[k].pc = "loaded")
                 => inflight'[k].sess = session[inflight'[k].sid]
       /\ \A s \in Sessions :
             session'[s] # session[s]
                 => \E k \in Threads :
                       /\ Delivered(k) /\ inflight[k].sid = s
                       /\ session'[s] = inflight[k].resp.set_cookie
       /\ \A k \in Threads :
             LET r == inflight[k] IN
             (/\ Runs(k) /\ r.q.route = "callback"
              /\ r.q.state \notin issued[r.sid]
              /\ \E s2 \in Sessions \ {r.sid} : r.q.state \in issued[s2])
                 => Rejected(inflight'[k])]_vars

\* a session with a pending consent of its own was sent a callback with the
\* state of the pending consent of another session, everything else being in
\* order, and refused it
C12_Witness ==
    \E k \in Threads :
        LET r == inflight[k] IN
        /\ Done(k) /\ r.q.route = "callback"
        /\ r.sess.consent # NoConsent
        /\ r.q.state \notin issued[r.sid]
        /\ \E s2 \in Sessions \ {r.sid} : session[s2].consent.state = r.q.state
        /\ r.q.code # Absent /\ ~r.q.error
        /\ Rejected(r)

\* C13: no response carries the token values of a session's credentials.
C13_NoTokensInResponses ==
    \A k \in Threads :
        Done(k) => /\ inflight[k].resp.set_cookie.creds.access_token = Absent
                   /\ inflight[k].resp.set_cookie.creds.refresh_token = Absent

\* C14: the successful login path goes through: / without credentials stores a
\* consent and redirects to the provider with its state; a /callback with a
\* code and that state whose token exchange succeeds stores credentials and
\* redirects to /; a POST / with a valid form whose statement executes
\* successfully returns the page with the result table.
C14_LoginPathSucceeds ==
    [][\A k \in Threads :
          LET r == inflight[k] IN
          Delivered(k)
              => /\ (r.q.route = "index" /\ r.sess.creds = NoCreds)
                        => /\ r.resp.status = "redirect"
                           /\ r.resp.location = "provider"
                           /\ r.resp.auth_state # Absent
                           /\ session'[r.sid].consent.state = r.resp.auth_state
                 /\ (/\ r.q.route = "callback"
                     /\ r.sess.consent # NoConsent
                     /\ r.q.state = r.sess.consent.state
                     /\ r.q.code # Absent /\ ~r.q.error /\ r.q.token_ok)
                        => /\ r.resp.status = "redirect"
                           /\ r.resp.location = "index"
                           /\ session'[r.sid].creds # NoCreds
                           /\ session'[r.sid].creds.access_token # Absent
                 /\ (/\ r.q.route = "index" /\ r.sess.creds # NoCreds
                     /\ validate_on_submit(r.q) /\ r.q.exec = "ok"
                     /\ r.resp.refresh \in {"none", "ok"})
                        => /\ r.resp.status = "page" /\ r.resp.table
                           /\ r.resp.flash = "none"]_vars

\* the end of the scenario: a session that was logged in through its consent
\* has posted a statement with its unexpired token and the table is on its way
C14_Witness ==
    \E k \in Threads :
        LET r == inflight[k] IN
        /\ Done(k) /\ r.q.route = "index"
        /\ r.q.method = "POST" /\ r.q.exec = "ok"
        /\ r.sess = session[r.sid]
        /\ r.sess.consent.state \in issued[r.sid]
        /\ \E c \in Codes : <<r.sid, c, r.sess.consent.state>> \in exchanged
        /\ r.sess.creds # NoCreds
        /\ r.resp.refresh = "none"
        /\ r.resp.used_token = r.sess.creds.access_token
        /\ r.resp.status = "page" /\ r.resp.table

\* C15: two requests of one session that are handled at the same time never
\* both make a refresh exchange with the same refresh token.
C15_RefreshAtomicPerSession ==
    \A k1, k2 \in Threads :
        LET r1 == inflight[k1]
            r2 == inflight[k2] IN
        (/\ k1 # k2
         /\ Done(k1) /\ Done(k2)
         /\ r1.sid = r2.sid
         /\ r1.q.route = "index" /\ r2.q.route = "index"
         /\ r1.resp.token_calls > 0 /\ r2.resp.token_calls > 0)
            => r1.resp.refreshed_with # r2.resp.refreshed_with

\* C16: a request to / sends at most one statement execution call and a
\* request to /callback sends at most one token exchange, whatever the outcome.
C16_NoAutomaticRetry ==
    \A k \in Threads :
        LET r == inflight[k] IN
        Done(k)
            => /\ r.q.route = "index" => r.resp.exec_calls <= 1
               /\ r.q.route = "callback"
                      => (r.resp.token_calls <= 1 /\ r.resp.exec_calls = 0)

\* a statement execution call that failed and was made once
C16_Witness ==
    \E k \in Threads :
        LET r == inflight[k] IN
        /\ Done(k) /\ r.q.route = "index"
        /\ r.q.exec = "call_fails"
        /\ r.resp.exec_calls = 1
        /\ r.resp.flash = "alert-danger"

\* C17: a request to / that comes with a session without credentials sends no
\* statement execution call and drops the statement; every statement execution
\* call is authenticated from the credentials in the session of its request:
\* with their access token, or with the token refreshed by their refresh token.
C17_ExecutionOnlyWhenAuthenticated ==
    \A k \in Threads :
        LET r == inflight[k] IN
        Done(k)
            => /\ (r.q.route = "index" /\ r.sess.creds = NoCreds)
                      => /\ r.resp.exec_calls = 0
                         /\ r.resp.used_token = Absent
                         /\ ~r.resp.table
               /\ r.resp.exec_calls > 0
                      => /\ r.q.route = "index"
                         /\ r.sess.creds # NoCreds
                         /\ IF r.resp.refresh = "ok"
                            THEN /\ r.resp.refreshed_with # Absent
                                 /\ r.resp.refreshed_with
                                        = r.sess.creds.refresh_token
                            ELSE r.resp.used_token = r.sess.creds.access_token

\* a valid form posted in a session without credentials: redirected, nothing
\* executed
C17_Witness ==
    \E k \in Threads :
        LET r == inflight[k] IN
        /\ Done(k) /\ r.q.route = "index"
        /\ validate_on_submit(r.q)
        /\ r.sess.creds = NoCreds
        /\ r.resp.status = "redirect"
        /\ r.resp.exec_calls = 0

\* the state of the consent issued last among those of a set
latest(S) == CHOOSE x \in S : \A y \in S : y <= x

\* no request of session s is being handled
Quiet(s) == \A k \in Threads : inflight[k].pc = "idle" \/ inflight[k].sid # s

\* C18: a session holds one pending consent, the one issued last in it: once
\* the requests of a session have been answered the session holds the consent
\* that was issued last in it, a callback is exchanged only with the state of
\* that consent, and a callback with the state of an earlier consent of the
\* session is rejected and stores nothing.
C18_OnlyLatestConsentExchanged ==
    [][/\ \A s \in Sessions :
             (Quiet(s) /\ issued[s] # {})
                 => session[s].consent.state = latest(issued[s])
       /\ \A k \in Threads :
             LET r == inflight[k] IN
             (Runs(k) /\ r.q.route = "callback")
                 => /\ inflight'[k].resp.status = "redirect"
                           => r.q.state = latest(issued[r.sid])
                    /\ (/\ r.q.state \in issued[r.sid]
                        /\ r.q.state # latest(issued[r.sid]))
                           => Rejected(inflight'[k])]_vars

====
